---- MODULE Spec2Model ----
(***************************************************************************)
(* Provider selection, provider adapters and result normalisation of       *)
(* src/modules/llm_integration.py.                                         *)
(*                                                                         *)
(* Text is modelled at the level of lexemes: a text is a sequence of       *)
(* tokens (punctuation, whitespace, bare words, numbers, JSON literals and *)
(* quoted strings, a quoted string holding the text between its quotes).   *)
(* Python objects are tagged records: str, num, lit (None/True/False),     *)
(* list, and dict (an insertion-ordered sequence of key/value pairs with   *)
(* unique keys).                                                           *)
(***************************************************************************)
EXTENDS Integers, Sequences, FiniteSets, TLC

VARIABLES
    environ,    \* os.environ: the two credential variables
    call,       \* arguments of the analyze_with_llm invocation (or NoCall)
    provider,   \* the provider object: its class and its client handle
    clients,    \* hosted-API clients constructed (attempted) so far
    requests,   \* backend requests issued so far
    calls,      \* analyze calls made on the provider object
    raw,        \* the text last handed to _parse_llm_json
    result,     \* the value last returned to the caller
    raised,     \* TRUE when an exception escaped to the caller
    log,        \* records written to the logger by the last operation
    world,      \* what the library and the backend did in the last operation
    source,     \* the object whose serialisation is the input text, if any
    stage,      \* "idle" | "input" | "normalized" | "returned" | "ready"
                \* | "parsed" | "read"
    document,       \* the paragraphs of the uploaded .docx, in order
    requirements,   \* what parse_requirements returned
    walk,           \* the directory tree as os.walk lists it
    source_files,   \* what read_source_code returned
    total_chars     \* total_chars of read_source_code when it returned

vars == <<environ, call, provider, clients, requests, calls, raw, result,
          raised, log, world, source, stage, document, requirements, walk,
          source_files, total_chars>>

----------------------------------------------------------------------------
(* Bounds of the model                                                     *)

MaxLen == 3       \* longest raw token sequence enumerated as input text
MaxFields == 2    \* most fields of a partially populated mapping
MaxPad == 1       \* most whitespace characters on each side of a model name
MaxUpper == 1     \* leading positions of a model name upper-cased one at a time
MaxCalls == 2     \* analyze calls made on one provider object
MaxParas == 2     \* most paragraphs of a requirements document
MaxEntries == 4   \* most entries (files, directories) of a directory tree

----------------------------------------------------------------------------
(* Tokens and Python values                                                *)

P(c) == [k |-> "punct", c |-> c]
W(c) == [k |-> "word", c |-> c]
N(c) == [k |-> "num", c |-> c]
L(c) == [k |-> "lit", c |-> c]
Q(text) == [k |-> "quoted", q |-> text]
WS == [k |-> "ws", c |-> " "]

Str(text) == [t |-> "str", s |-> text]
Num(c) == [t |-> "num", n |-> c]
Lit(c) == [t |-> "lit", l |-> c]
List(items) == [t |-> "list", items |-> items]
Dict(pairs) == [t |-> "dict", pairs |-> pairs]
None == Lit("null")

T(c) == <<W(c)>>    \* a text of one word, e.g. a dictionary key

NoSource == [t |-> "none"]
NoResult == [t |-> "none"]
NoRaw == [fed |-> FALSE, text |-> <<>>]
Fed(text) == [fed |-> TRUE, text |-> text]

HasKey(d, key) == \E i \in 1..Len(d.pairs) : d.pairs[i].key = key

Get(d, key) ==
    LET i == CHOOSE i \in 1..Len(d.pairs) : d.pairs[i].key = key
    IN  d.pairs[i].val

Keys(d) == {d.pairs[i].key : i \in 1..Len(d.pairs)}

\* d[key] = val: an existing key keeps its place, a new key goes last
SetItem(d, key, val) ==
    IF HasKey(d, key)
    THEN Dict([i \in 1..Len(d.pairs) |->
                 IF d.pairs[i].key = key
                 THEN [key |-> key, val |-> val] ELSE d.pairs[i]])
    ELSE Dict(Append(d.pairs, [key |-> key, val |-> val]))

----------------------------------------------------------------------------
(* json.loads, as called at llm_integration.py:112 (CPython json.decoder   *)
(* and json.scanner): whitespace is skipped around every token, an object  *)
(* key must be a quoted string, a repeated key keeps the last value, a     *)
(* trailing comma and trailing non-whitespace data are errors.             *)

Ok(val, rest) == [ok |-> TRUE, val |-> val, rest |-> rest]
Fail == [ok |-> FALSE, val |-> None, rest |-> <<>>]

RECURSIVE SkipWs(_)
SkipWs(toks) ==
    IF Len(toks) > 0 /\ Head(toks).k = "ws" THEN SkipWs(Tail(toks)) ELSE toks

IsP(toks, c) == Len(toks) > 0 /\ Head(toks).k = "punct" /\ Head(toks).c = c

RECURSIVE scan_once(_)
RECURSIVE JSONObject(_, _)
RECURSIVE JSONArray(_, _)

\* members of an object, toks at the first character of a key
JSONObject(toks, d) ==
    IF Len(toks) = 0 \/ Head(toks).k # "quoted" THEN Fail
    ELSE LET key == Head(toks).q
             t1 == SkipWs(Tail(toks))
         IN  IF ~IsP(t1, ":") THEN Fail
             ELSE LET v == scan_once(SkipWs(Tail(t1)))
                  IN  IF ~v.ok THEN Fail
                      ELSE LET t3 == SkipWs(v.rest)
                               d2 == SetItem(d, key, v.val)
                           IN  IF IsP(t3, "}") THEN Ok(d2, Tail(t3))
                               ELSE IF IsP(t3, ",")
                                    THEN JSONObject(SkipWs(Tail(t3)), d2)
                                    ELSE Fail

\* elements of an array, toks at the first character of an element
JSONArray(toks, items) ==
    LET v == scan_once(toks)
    IN  IF ~v.ok THEN Fail
        ELSE LET t1 == SkipWs(v.rest)
                 items2 == Append(items, v.val)
             IN  IF IsP(t1, "]") THEN Ok(List(items2), Tail(t1))
                 ELSE IF IsP(t1, ",")
                      THEN JSONArray(SkipWs(Tail(t1)), items2)
                      ELSE Fail

scan_once(toks) ==
    IF Len(toks) = 0 THEN Fail
    ELSE LET h == Head(toks)
             r == Tail(toks)
         IN  CASE h.k = "quoted" -> Ok(Str(h.q), r)
               [] h.k = "num" -> Ok(Num(h.c), r)
               [] h.k = "lit" -> Ok(Lit(h.c), r)
               [] h.k = "punct" /\ h.c = "{" ->
                    IF IsP(SkipWs(r), "}")
                    THEN Ok(Dict(<<>>), Tail(SkipWs(r)))
                    ELSE JSONObject(SkipWs(r), Dict(<<>>))
               [] h.k = "punct" /\ h.c = "[" ->
                    IF IsP(SkipWs(r), "]")
                    THEN Ok(List(<<>>), Tail(SkipWs(r)))
                    ELSE JSONArray(SkipWs(r), <<>>)
               [] OTHER -> Fail

\* JSONDecoder.decode: only whitespace may follow the value
Decoded(r) ==
    IF r.ok /\ Len(SkipWs(r.rest)) = 0
    THEN [ok |-> TRUE, val |-> r.val]
    ELSE [ok |-> FALSE, val |-> None]

\* [ok |-> FALSE] stands for the exception json.loads raises
json_loads(text) == Decoded(scan_once(SkipWs(text)))

----------------------------------------------------------------------------
(* _parse_llm_json, llm_integration.py:109-132                             *)

\* what an operator yields when the code it models raises instead of returning
Raise == [t |-> "exception"]

\* mutant: result[key] = default, whether or not the key is present
setdefault_overwrite(d, key, default) == SetItem(d, key, default)

\* dict.setdefault(key, default): only an absent key is set
setdefault(d, key, default) ==
    IF HasKey(d, key) THEN d ELSE SetItem(d, key, default)

RequiredKeys ==
    <<T("summary"), T("traceability_matrix"), T("missing_requirements"),
      T("suggestions"), T("detailed_analysis")>>

Required == {RequiredKeys[i] : i \in 1..Len(RequiredKeys)}

\* the default of each required key, lines 115-119
DefaultOf(key) ==
    CASE key = T("summary") -> Str(<<>>)
      [] key = T("traceability_matrix") -> Dict(<<>>)
      [] key = T("missing_requirements") -> List(<<>>)
      [] key = T("suggestions") -> List(<<>>)
      [] key = T("detailed_analysis") -> Str(<<>>)

\* mutant: the setdefault of "suggestions" is forgotten
EnsureRequired_skip(d) ==
    LET d1 == setdefault(d, RequiredKeys[1], DefaultOf(RequiredKeys[1]))
        d2 == setdefault(d1, RequiredKeys[2], DefaultOf(RequiredKeys[2]))
        d3 == setdefault(d2, RequiredKeys[3], DefaultOf(RequiredKeys[3]))
    IN  setdefault(d3, RequiredKeys[5], DefaultOf(RequiredKeys[5]))

\* lines 115-119: the five setdefault calls, in order
EnsureRequired(d) ==
    LET d1 == setdefault(d, RequiredKeys[1], DefaultOf(RequiredKeys[1]))
        d2 == setdefault(d1, RequiredKeys[2], DefaultOf(RequiredKeys[2]))
        d3 == setdefault(d2, RequiredKeys[3], DefaultOf(RequiredKeys[3]))
        d4 == setdefault(d3, RequiredKeys[4], DefaultOf(RequiredKeys[4]))
    IN  setdefault(d4, RequiredKeys[5], DefaultOf(RequiredKeys[5]))

\* mutant: the raw text is dropped from the heuristic result
Heuristic_drop(text) ==
    Dict(<<[key |-> T("summary"),
            val |-> Str(T("Model returned non-JSON output."))],
           [key |-> T("traceability_matrix"), val |-> Dict(<<>>)],
           [key |-> T("missing_requirements"), val |-> List(<<>>)],
           [key |-> T("suggestions"),
            val |-> List(<<Str(T("Ensure the model is instructed to output strict JSON."))>>)],
           [key |-> T("detailed_analysis"), val |-> Str(<<>>)]>>)

\* lines 126-132: the heuristic result
Heuristic(text) ==
    Dict(<<[key |-> T("summary"),
            val |-> Str(T("Model returned non-JSON output."))],
           [key |-> T("traceability_matrix"), val |-> Dict(<<>>)],
           [key |-> T("missing_requirements"), val |-> List(<<>>)],
           [key |-> T("suggestions"),
            val |-> List(<<Str(T("Ensure the model is instructed to output strict JSON."))>>)],
           [key |-> T("detailed_analysis"), val |-> Str(text)]>>)

\* lines 113-132, r being what json.loads did: a mapping is completed and
\* returned; an exception is caught and passed over (lines 121-122), and
\* that path, like the path of any other value, ends in the heuristic result
Normalized(r, text) ==
    IF r.ok /\ r.val.t = "dict" THEN EnsureRequired(r.val)
    ELSE Heuristic(text)

\* the same without the try/except: the exception of json.loads escapes
Normalized_nocatch(r, text) ==
    IF ~r.ok THEN Raise
    ELSE IF r.val.t = "dict" THEN EnsureRequired(r.val)
    ELSE Heuristic(text)

\* mutant: no try/except around json.loads
_parse_llm_json_nocatch(text) == Normalized_nocatch(json_loads(text), text)

\* lines 109-132
_parse_llm_json(text) == Normalized(json_loads(text), text)

----------------------------------------------------------------------------
(* Input texts of the normaliser                                           *)

\* json.dumps with its default separators ", " and ": "
RECURSIVE dumps(_)
RECURSIVE DumpItems(_)
RECURSIVE DumpPairs(_)

DumpItems(items) ==
    IF Len(items) = 0 THEN <<>>
    ELSE dumps(Head(items))
         \o (IF Len(items) > 1 THEN <<P(","), WS>> ELSE <<>>)
         \o DumpItems(Tail(items))

DumpPairs(pairs) ==
    IF Len(pairs) = 0 THEN <<>>
    ELSE <<Q(Head(pairs).key), P(":"), WS>> \o dumps(Head(pairs).val)
         \o (IF Len(pairs) > 1 THEN <<P(","), WS>> ELSE <<>>)
         \o DumpPairs(Tail(pairs))

dumps(v) ==
    CASE v.t = "str" -> <<Q(v.s)>>
      [] v.t = "num" -> <<N(v.n)>>
      [] v.t = "lit" -> <<L(v.l)>>
      [] v.t = "list" -> <<P("[")>> \o DumpItems(v.items) \o <<P("]")>>
      [] v.t = "dict" -> <<P("{")>> \o DumpPairs(v.pairs) \o <<P("}")>>

Alphabet ==
    {P("{"), P("}"), P("["), P("]"), P(":"), P(","), WS,
     Q(T("summary")), N("7"), L("null"), W("x")}

\* every token sequence of at most MaxLen tokens
RawTexts == UNION {[1..n -> Alphabet] : n \in 0..MaxLen}

FieldKeys == Required \cup {T("extra")}

FieldVals ==
    {Str(T("ok")), None, Num("7"), List(<<Str(T("R-3"))>>),
     Dict(<<[key |-> T("R-1"), val |-> Str(T("IMPLEMENTED"))]>>)}

\* mappings of at most MaxFields fields, in every order of insertion
PartialDicts ==
    {Dict(ps) : ps \in
        {qs \in UNION {[1..n -> [key : FieldKeys, val : FieldVals]] : n \in 0..MaxFields} :
            \A i, j \in 1..Len(qs) : i # j => qs[i].key # qs[j].key}}

\* mappings with all five required fields, with or without a sixth
FullDicts ==
    LET five == {Dict([i \in 1..5 |-> [key |-> RequiredKeys[i], val |-> f[i]]]) :
                    f \in [1..5 -> FieldVals]}
    IN  five \cup {SetItem(d, T("extra"), Str(T("ok"))) : d \in five}

NonDicts == {v \in FieldVals : v.t # "dict"} \cup {List(<<>>), Lit("true")}

Objects == PartialDicts \cup FullDicts \cup NonDicts

ProperPrefixes(text) == {SubSeq(text, 1, n) : n \in 0..(Len(text) - 1)}

SampleObjects ==
    {Dict(<<[key |-> T("summary"), val |-> Str(T("ok"))]>>),
     Dict(<<[key |-> T("summary"), val |-> Str(T("ok"))],
            [key |-> T("suggestions"), val |-> List(<<Str(T("a")), Str(T("b"))>>)]>>)}

\* a response cut off by the token limit, or wrapped in a code fence
BrokenTexts ==
    UNION {ProperPrefixes(dumps(v)) : v \in SampleObjects}
    \cup {<<W("<fence json>")>> \o dumps(v) \o <<W("<fence>")>> : v \in SampleObjects}
    \cup {<<W("not json at all")>>}


\* texts written by hand, each with the object Python's json.loads yields
HandTexts ==
    {\* {"summary":"ok","summary":null}: the last value of a repeated key
     [source |-> Dict(<<[key |-> T("summary"), val |-> None]>>),
      text |-> <<P("{"), Q(T("summary")), P(":"), Q(T("ok")), P(","),
                 Q(T("summary")), P(":"), L("null"), P("}")>>],
     \*  { "summary" : "ok" }  with whitespace around every token
     [source |-> Dict(<<[key |-> T("summary"), val |-> Str(T("ok"))]>>),
      text |-> <<WS, P("{"), WS, Q(T("summary")), WS, P(":"), WS, Q(T("ok")),
                 WS, P("}"), WS>>],
     \* [[[]]]
     [source |-> List(<<List(<<List(<<>>)>>)>>),
      text |-> <<P("["), P("["), P("["), P("]"), P("]"), P("]")>>],
     \* {"traceability_matrix":{"R-1":{"a":[7]}}}
     [source |-> Dict(<<[key |-> T("traceability_matrix"),
                         val |-> Dict(<<[key |-> T("R-1"),
                                         val |-> Dict(<<[key |-> T("a"),
                                                         val |-> List(<<Num("7")>>)]>>)]>>)]>>),
      text |-> <<P("{"), Q(T("traceability_matrix")), P(":"), P("{"),
                 Q(T("R-1")), P(":"), P("{"), Q(T("a")), P(":"), P("["),
                 N("7"), P("]"), P("}"), P("}"), P("}")>>]}

Inputs ==
    {[source |-> v, text |-> dumps(v)] : v \in Objects}
    \cup HandTexts
    \cup {[source |-> NoSource, text |-> x] : x \in RawTexts \cup BrokenTexts}

----------------------------------------------------------------------------
(* State shared by the specifications                                      *)

Unset == "<unset>"      \* os.environ has no such variable
EnvValues == {Unset, "", "sk-env"}

NoCall == [made |-> FALSE, prompt |-> "", model_name |-> <<>>, api_key |-> ""]
Call(prompt, model_name, api_key) ==
    [made |-> TRUE, prompt |-> prompt, model_name |-> model_name,
     api_key |-> api_key]
NoProvider == [class |-> "none", client |-> "None"]

\* the environment did nothing: no constructor ran, no request was answered
Calm == [ctor |-> "none", backend |-> "none"]

\* no document was parsed and no directory read
NothingRead ==
    /\ document = <<>>
    /\ requirements = <<>>
    /\ walk = <<>>
    /\ source_files = <<>>
    /\ total_chars = 0

\* nothing has been called yet
Quiet ==
    /\ NothingRead
    /\ call = NoCall
    /\ provider = NoProvider
    /\ clients = 0
    /\ requests = 0
    /\ calls = 0
    /\ raised = FALSE
    /\ log = <<>>
    /\ world = Calm

----------------------------------------------------------------------------
(* Strings of characters: model names (str.strip and str.lower, line 140)  *)

UpperLetters ==
    <<"A", "B", "C", "D", "E", "F", "G", "H", "I", "J", "K", "L", "M",
      "N", "O", "P", "Q", "R", "S", "T", "U", "V", "W", "X", "Y", "Z">>
LowerLetters ==
    <<"a", "b", "c", "d", "e", "f", "g", "h", "i", "j", "k", "l", "m",
      "n", "o", "p", "q", "r", "s", "t", "u", "v", "w", "x", "y", "z">>
Whitespace == {" ", "\t", "\n"}

LowerChar(c) ==
    IF \E i \in 1..26 : UpperLetters[i] = c
    THEN LowerLetters[CHOOSE i \in 1..26 : UpperLetters[i] = c]
    ELSE c

UpperChar(c) ==
    IF \E i \in 1..26 : LowerLetters[i] = c
    THEN UpperLetters[CHOOSE i \in 1..26 : LowerLetters[i] = c]
    ELSE c

\* str.lower()
Lower(str) == [i \in 1..Len(str) |-> LowerChar(str[i])]

\* str.strip(): leading and trailing whitespace removed
Strip(str) ==
    LET solid == {i \in 1..Len(str) : str[i] \notin Whitespace}
    IN  IF solid = {} THEN <<>>
        ELSE SubSeq(str, CHOOSE i \in solid : \A j \in solid : i <= j,
                         CHOOSE i \in solid : \A j \in solid : i >= j)

\* mutant: the name is trimmed but its case is kept
NormalizeModelName_keepcase(model_name) == Strip(model_name)

\* line 140: (model_name or "").strip().lower()
NormalizeModelName(model_name) == Lower(Strip(model_name))

gpt_4o == <<"g", "p", "t", "-", "4", "o">>
claude_35_sonnet ==
    <<"c", "l", "a", "u", "d", "e", " ", "3", ".", "5", " ",
      "s", "o", "n", "n", "e", "t">>
local_llama_3 ==
    <<"l", "o", "c", "a", "l", " ", "l", "l", "a", "m", "a", " ", "3">>

\* ui/analysis_control_section.py:3-7
MODEL_OPTIONS ==
    {<<"G", "P", "T", "-", "4", "o">>,
     <<"C", "l", "a", "u", "d", "e", " ", "3", ".", "5", " ",
       "S", "o", "n", "n", "e", "t">>,
     <<"L", "o", "c", "a", "l", " ", "L", "l", "a", "m", "a", " ", "3">>}

----------------------------------------------------------------------------
(* The providers, llm_integration.py:12-106                                *)

\* lines 15-28
MockResult ==
    Dict(<<[key |-> T("summary"),
            val |-> Str(T("Most requirements appear implemented with minor gaps."))],
           [key |-> T("traceability_matrix"),
            val |-> Dict(<<[key |-> T("R-1"), val |-> Str(T("IMPLEMENTED"))],
                           [key |-> T("R-2"), val |-> Str(T("PARTIALLY_IMPLEMENTED"))],
                           [key |-> T("R-3"), val |-> Str(T("NOT_IMPLEMENTED"))]>>)],
           [key |-> T("missing_requirements"), val |-> List(<<Str(T("R-3"))>>)],
           [key |-> T("suggestions"),
            val |-> List(<<Str(T("Add comprehensive error handling and unit tests for requirement R-2.")),
                           Str(T("Implement data validation workflow for R-3."))>>)],
           [key |-> T("detailed_analysis"),
            val |-> Str(T("R-1 references found in module A; R-2 partially covered in module B with missing edge cases; R-3 no references found."))]>>)

\* What an analyze call did: the value returned (or Raise), the backend
\* requests it issued, the text it handed to _parse_llm_json, its log records
Out(ret, reqs, fed, records) ==
    [ret |-> ret, reqs |-> reqs, raw |-> fed, log |-> records]

\* lines 13-30
MockProvider_analyze(prompt) ==
    Out(MockResult, 0, NoRaw, <<"INFO Returning mock LLM response.">>)

\* a record logged before the mock fallback of the same call
Fallback(reqs, record, prompt) ==
    LET m == MockProvider_analyze(prompt)
    IN  Out(m.ret, reqs + m.reqs, m.raw, <<record>> \o m.log)

\* What the library does when a client is constructed: it returns a client,
\* it is not installed, or its constructor raises
CtorEvents == {"ok", "ImportError", "raises"}

\* mutant: no try/except in the constructor
HostedInit_nocatch(class, api_key, ctor) ==
    [obj |-> [class |-> class, client |-> IF ctor = "ok" THEN "Client" ELSE "None"],
     exc |-> ctor # "ok",
     log |-> <<>>]

\* lines 34-40 and 63-69: OpenAIProvider.__init__, AnthropicProvider.__init__
HostedInit(class, api_key, ctor) ==
    [obj |-> [class |-> class, client |-> IF ctor = "ok" THEN "Client" ELSE "None"],
     exc |-> FALSE,
     log |-> IF ctor = "ok" THEN <<>>
             ELSE IF class = "OpenAIProvider"
                  THEN <<"ERROR Failed to initialize OpenAI client">>
                  ELSE <<"ERROR Failed to initialize Anthropic client">>]

\* lines 92-94
OllamaInit == [class |-> "OllamaProvider", client |-> "None"]

\* What the backend does with the one request: it answers with a text, or
\* the call or the reading of the response raises
HostedFailures == {"timeout", "connection_refused", "http_error", "no_choices"}
OllamaFailures ==
    {"timeout", "connection_refused", "http_error", "bad_body", "not_object"}
Failures == HostedFailures \cup OllamaFailures

Answer(text) == [ev |-> "text", text |-> text]
Failure(ev) == [ev |-> ev, text |-> <<>>]

\* return _parse_llm_json(text), inside the try block: an exception of the
\* parse would be caught like one of the request
Returned(r, reqs, text, record, prompt) ==
    IF r = Raise THEN Fallback(reqs, record, prompt)
    ELSE Out(r, reqs, Fed(text), <<>>)

Parsed(reqs, text, record, prompt) ==
    Returned(_parse_llm_json(text), reqs, text, record, prompt)

\* lines 42-59
OpenAIProvider_analyze(self, prompt, b) ==
    IF self.client = "None"
    THEN Fallback(0, "WARNING OpenAI client unavailable; falling back to mock.", prompt)
    ELSE IF b.ev # "text"
         THEN Fallback(1, "ERROR OpenAI analysis failed", prompt)
         ELSE Parsed(1, b.text, "ERROR OpenAI analysis failed", prompt)

\* mutant: no try/except around the request
AnthropicProvider_analyze_notry(self, prompt, b) ==
    IF self.client = "None"
    THEN Fallback(0, "WARNING Anthropic client unavailable; falling back to mock.", prompt)
    ELSE IF b.ev # "text"
         THEN Out(Raise, 1, NoRaw, <<>>)
         ELSE Parsed(1, b.text, "ERROR Anthropic analysis failed", prompt)

\* lines 71-88
AnthropicProvider_analyze(self, prompt, b) ==
    IF self.client = "None"
    THEN Fallback(0, "WARNING Anthropic client unavailable; falling back to mock.", prompt)
    ELSE IF b.ev # "text"
         THEN Fallback(1, "ERROR Anthropic analysis failed", prompt)
         ELSE Parsed(1, b.text, "ERROR Anthropic analysis failed", prompt)

\* mutant: a failed request is tried once more before giving up
OllamaProvider_analyze_retry(self, prompt, b) ==
    IF b.ev # "text"
    THEN Fallback(2, "ERROR Ollama analysis failed (is Ollama running?)", prompt)
    ELSE Parsed(1, b.text, "ERROR Ollama analysis failed (is Ollama running?)", prompt)

\* lines 96-106
OllamaProvider_analyze(self, prompt, b) ==
    IF b.ev # "text"
    THEN Fallback(1, "ERROR Ollama analysis failed (is Ollama running?)", prompt)
    ELSE Parsed(1, b.text, "ERROR Ollama analysis failed (is Ollama running?)", prompt)

----------------------------------------------------------------------------
(* analyze_with_llm, llm_integration.py:135-162                            *)

\* os.getenv(name, default)
getenv(env, name, default) == IF env[name] = Unset THEN default ELSE env[name]

\* a or b, on strings: the empty string is false
Or(a, b) == IF a # "" THEN a ELSE b

\* mutant: os.getenv(name) without the "" default, its None rendered as text
ResolveKey_nodefault(api_key, env, name) ==
    Or(api_key, IF env[name] = Unset THEN "None" ELSE env[name])

\* lines 144 and 151: key = api_key or os.getenv(NAME, "")
ResolveKey(api_key, env, name) == Or(api_key, getenv(env, name, ""))

\* mutant: an unknown model name is sent to the local daemon
SelectProvider_default_local(model_name, api_key, env) ==
    LET name == NormalizeModelName(model_name)
    IN  IF name = gpt_4o
        THEN IF ResolveKey(api_key, env, "OPENAI_API_KEY") = ""
             THEN "MockProvider" ELSE "OpenAIProvider"
        ELSE IF name = claude_35_sonnet
        THEN IF ResolveKey(api_key, env, "ANTHROPIC_API_KEY") = ""
             THEN "MockProvider" ELSE "AnthropicProvider"
        ELSE "OllamaProvider"

\* lines 140-162: the class whose analyze is called
SelectProvider(model_name, api_key, env) ==
    LET name == NormalizeModelName(model_name)
    IN  IF name = gpt_4o
        THEN IF ResolveKey(api_key, env, "OPENAI_API_KEY") = ""
             THEN "MockProvider" ELSE "OpenAIProvider"
        ELSE IF name = claude_35_sonnet
        THEN IF ResolveKey(api_key, env, "ANTHROPIC_API_KEY") = ""
             THEN "MockProvider" ELSE "AnthropicProvider"
        ELSE IF name = local_llama_3 THEN "OllamaProvider"
        ELSE "MockProvider"

Hosted == {"OpenAIProvider", "AnthropicProvider"}

\* the record logged before MockProvider is used directly, lines 146, 153, 161
SelectNote(model_name) ==
    LET name == NormalizeModelName(model_name)
    IN  IF name = gpt_4o THEN "INFO No OpenAI API key provided; using mock response."
        ELSE IF name = claude_35_sonnet
        THEN "INFO No Anthropic API key provided; using mock response."
        ELSE "INFO Unknown model; defaulting to mock."

\* What one invocation did: the provider object it made, the clients it
\* constructed, what the environment did, and the outcome of analyze
Invocation(obj, nclients, ctor, b, records, out) ==
    [provider |-> obj, clients |-> nclients,
     world |-> [ctor |-> ctor, backend |-> IF out.reqs > 0 THEN b.ev ELSE "none"],
     out |-> Out(out.ret, out.reqs, out.raw, records \o out.log)]

\* Provider(key).analyze(prompt), init being what the constructor did
HostedAnalyze(class, init, prompt, b) ==
    IF init.exc THEN Out(Raise, 0, NoRaw, <<>>)
    ELSE IF class = "OpenAIProvider"
         THEN OpenAIProvider_analyze(init.obj, prompt, b)
         ELSE AnthropicProvider_analyze(init.obj, prompt, b)

\* lines 148 and 155
HostedCall(class, init, prompt, ctor, b) ==
    Invocation(init.obj, 1, ctor, b, init.log,
               HostedAnalyze(class, init, prompt, b))

MockObject == [class |-> "MockProvider", client |-> "None"]
NoBackend == [ev |-> "none", text |-> <<>>]

\* lines 142-162, class being the branch taken
Dispatch(class, prompt, model_name, api_key, env, ctor, b) ==
    IF class \in Hosted
    THEN HostedCall(class,
                    HostedInit(class,
                               ResolveKey(api_key, env,
                                          IF class = "OpenAIProvider"
                                          THEN "OPENAI_API_KEY"
                                          ELSE "ANTHROPIC_API_KEY"),
                               ctor),
                    prompt, ctor, b)
    ELSE IF class = "OllamaProvider"
    THEN Invocation(OllamaInit, 0, "none", b, <<>>,
                    OllamaProvider_analyze(OllamaInit, prompt, b))
    ELSE Invocation(MockObject, 0, "none", NoBackend, <<>>,
                    Fallback(0, SelectNote(model_name), prompt))

\* lines 135-162; ctor and b are the behaviour of the library and of the
\* backend during the invocation
analyze_with_llm(prompt, model_name, api_key, env, ctor, b) ==
    Dispatch(SelectProvider(model_name, api_key, env),
             prompt, model_name, api_key, env, ctor, b)

----------------------------------------------------------------------------
(* Inputs of analyze_with_llm and behaviours of its environment            *)

Prompts == {"prompt-1", "prompt-2"}
ApiKeys == {"", "sk-arg"}

Min(a, b) == IF a <= b THEN a ELSE b
Spaces(n) == [i \in 1..n |-> " "]
Pads == {Spaces(n) : n \in 0..MaxPad} \cup {<<"\t">>}

UpperAll(str) == [i \in 1..Len(str) |-> UpperChar(str[i])]
UpperAt(str, i) ==
    [j \in 1..Len(str) |-> IF j = i THEN UpperChar(str[j]) ELSE str[j]]

BaseNames ==
    {gpt_4o, claude_35_sonnet, local_llama_3, <<>>,
     <<"g", "p", "t", "-", "4">>, <<"g", "p", "t", " ", "4", "o">>,
     <<"l", "l", "a", "m", "a", "3">>}

Cased(base) ==
    {base, UpperAll(base)}
    \cup {UpperAt(base, i) : i \in 1..Min(MaxUpper, Len(base))}

NameInputs ==
    MODEL_OPTIONS
    \cup UNION {{l \o c \o r : l \in Pads, r \in Pads, c \in Cased(base)} :
                    base \in BaseNames}

BackendTexts ==
    {<<>>, <<W("not json at all")>>, dumps(MockResult), dumps(List(<<>>)),
     dumps(Dict(<<[key |-> T("summary"), val |-> Str(T("ok"))]>>)),
     dumps(Dict(<<[key |-> T("traceability_matrix"), val |-> None],
                  [key |-> T("extra"), val |-> Num("7")]>>)),
     <<W("<fence json>")>> \o dumps(MockResult) \o <<W("<fence>")>>}

BackendsOf(class) ==
    IF class \in Hosted
    THEN {Failure(e) : e \in HostedFailures} \cup {Answer(x) : x \in BackendTexts}
    ELSE IF class = "OllamaProvider"
    THEN {Failure(e) : e \in OllamaFailures} \cup {Answer(x) : x \in BackendTexts}
    ELSE {NoBackend}

CtorsOf(class) == IF class \in Hosted THEN CtorEvents ELSE {"none"}

----------------------------------------------------------------------------
(* Spec: the application calls analyze_with_llm once per run               *)

Init ==
    /\ Quiet
    /\ environ \in [{"OPENAI_API_KEY", "ANTHROPIC_API_KEY"} -> EnvValues]
    /\ raw = NoRaw
    /\ result = NoResult
    /\ source = NoSource
    /\ stage = "idle"

\* main.py:67, llm_result = analyze_with_llm(prompt, model_name, api_key)
AnalyzeWithLlm ==
    /\ stage = "idle"
    /\ \E prompt \in Prompts, model_name \in NameInputs, api_key \in ApiKeys :
        LET class == SelectProvider(model_name, api_key, environ)
        IN  \E ctor \in CtorsOf(class), b \in BackendsOf(class) :
            \E did \in {analyze_with_llm(prompt, model_name, api_key, environ,
                                          ctor, b)} :
                /\ call' = Call(prompt, model_name, api_key)
                /\ provider' = did.provider
                /\ clients' = did.clients
                /\ requests' = did.out.reqs
                /\ world' = did.world
                /\ raw' = did.out.raw
                /\ log' = did.out.log
                /\ raised' = (did.out.ret = Raise)
                /\ result' = IF did.out.ret = Raise THEN NoResult
                             ELSE did.out.ret
    /\ stage' = "returned"
    /\ UNCHANGED <<environ, calls, source,
                   document, requirements, walk, source_files, total_chars>>

\* the script ends; the next user action runs it again from the top
Rerun ==
    /\ stage = "returned"
    /\ call' = NoCall
    /\ provider' = NoProvider
    /\ clients' = 0
    /\ requests' = 0
    /\ world' = Calm
    /\ raw' = NoRaw
    /\ log' = <<>>
    /\ raised' = FALSE
    /\ result' = NoResult
    /\ stage' = "idle"
    /\ UNCHANGED <<environ, calls, source,
                   document, requirements, walk, source_files, total_chars>>

Next == AnalyzeWithLlm \/ Rerun

Spec == Init /\ [][Next]_vars

----------------------------------------------------------------------------
(* ProviderSpec: provider objects are constructed and their analyze is     *)
(* called, up to MaxCalls times on one object                              *)

InitProvider ==
    /\ Quiet
    /\ environ = [OPENAI_API_KEY |-> Unset, ANTHROPIC_API_KEY |-> Unset]
    /\ raw = NoRaw
    /\ result = NoResult
    /\ source = NoSource
    /\ stage = "idle"

\* Provider(api_key), init being what __init__ did; an exception of the
\* constructor leaves no object
Constructed(api_key, ctor, init) ==
    /\ call' = Call("", <<>>, api_key)
    /\ provider' = IF init.exc THEN NoProvider ELSE init.obj
    /\ clients' = clients + 1
    /\ world' = [ctor |-> ctor, backend |-> "none"]
    /\ log' = init.log
    /\ raised' = init.exc
    /\ stage' = IF init.exc THEN "aborted" ELSE "ready"
    /\ UNCHANGED <<environ, requests, calls, raw, result, source,
                   document, requirements, walk, source_files, total_chars>>

NewOpenAIProvider ==
    /\ stage = "idle"
    /\ \E api_key \in ApiKeys, ctor \in CtorEvents :
        \E init \in {HostedInit("OpenAIProvider", api_key, ctor)} :
            Constructed(api_key, ctor, init)

NewAnthropicProvider ==
    /\ stage = "idle"
    /\ \E api_key \in ApiKeys, ctor \in CtorEvents :
        \E init \in {HostedInit("AnthropicProvider", api_key, ctor)} :
            Constructed(api_key, ctor, init)

NewOllamaProvider ==
    /\ stage = "idle"
    /\ provider' = OllamaInit
    /\ stage' = "ready"
    /\ UNCHANGED <<environ, call, clients, requests, calls, raw, result,
                   raised, log, world, source,
                   document, requirements, walk, source_files, total_chars>>

\* provider.analyze(prompt) returned or raised, out being what it did
Analyzed(b, out) ==
    /\ calls' = calls + 1
    /\ requests' = requests + out.reqs
    /\ world' = [ctor |-> world.ctor,
                 backend |-> IF out.reqs > 0 THEN b.ev ELSE "none"]
    /\ raw' = out.raw
    /\ log' = out.log
    /\ raised' = (out.ret = Raise)
    /\ result' = IF out.ret = Raise THEN NoResult ELSE out.ret
    /\ stage' = IF out.ret = Raise THEN "aborted" ELSE "ready"
    /\ UNCHANGED <<environ, call, provider, clients, source,
                   document, requirements, walk, source_files, total_chars>>

OpenAIAnalyze ==
    /\ stage = "ready"
    /\ provider.class = "OpenAIProvider"
    /\ calls < MaxCalls
    /\ \E prompt \in Prompts, b \in BackendsOf("OpenAIProvider") :
        \E out \in {OpenAIProvider_analyze(provider, prompt, b)} :
            Analyzed(b, out)

AnthropicAnalyze ==
    /\ stage = "ready"
    /\ provider.class = "AnthropicProvider"
    /\ calls < MaxCalls
    /\ \E prompt \in Prompts, b \in BackendsOf("AnthropicProvider") :
        \E out \in {AnthropicProvider_analyze(provider, prompt, b)} :
            Analyzed(b, out)

OllamaAnalyze ==
    /\ stage = "ready"
    /\ provider.class = "OllamaProvider"
    /\ calls < MaxCalls
    /\ \E prompt \in Prompts, b \in BackendsOf("OllamaProvider") :
        \E out \in {OllamaProvider_analyze(provider, prompt, b)} :
            Analyzed(b, out)

NextProvider ==
    \/ NewOpenAIProvider
    \/ NewAnthropicProvider
    \/ NewOllamaProvider
    \/ OpenAIAnalyze
    \/ AnthropicAnalyze
    \/ OllamaAnalyze

ProviderSpec == InitProvider /\ [][NextProvider]_vars

----------------------------------------------------------------------------
(* parse_requirements, file_parser.py:18-58.  A line is a sequence of      *)
(* characters; BULLET stands for the character U+2022.                     *)

BULLET == "<bullet>"
Digits == {"0", "1", "2", "3", "4", "5", "6", "7", "8", "9"}
Letters == {UpperLetters[i] : i \in 1..26} \cup {LowerLetters[i] : i \in 1..26}

\* how many characters of the set follow one another from position i on
Run(line, i, set) ==
    LET stops == {j \in i..Len(line) : line[j] \notin set}
    IN  IF stops = {} THEN IF i > Len(line) THEN 0 ELSE Len(line) - i + 1
        ELSE (CHOOSE j \in stops : \A k \in stops : j <= k) - i

\* hi, hi - 1, ..., lo: the lengths a greedy quantifier gives back
Desc(hi, lo) == [i \in 1..(hi - lo + 1) |-> hi - i + 1]

CharAt(line, i, c) == i <= Len(line) /\ line[i] = c

\* The ends of group 1 of req_pattern (line 41), in the order the regex
\* engine tries them: R-\d+, then [A-Za-z]?\d+\.?, then \\* (any number of
\* backslashes, none included), then -, then the bullet
GroupEnds(line) ==
    LET d1 == Run(line, 3, Digits)
        off == IF CharAt(line, 1, line[1]) /\ line[1] \in Letters THEN 1 ELSE 0
        d2 == Run(line, off + 1, Digits)
    IN  (IF CharAt(line, 1, "R") /\ CharAt(line, 2, "-") /\ d1 >= 1
         THEN Desc(2 + d1, 3) ELSE <<>>)
     \o (IF d2 >= 1
         THEN (IF CharAt(line, off + d2 + 1, ".") THEN <<off + d2 + 1>> ELSE <<>>)
              \o Desc(off + d2, off + 1)
         ELSE <<>>)
     \o Desc(Run(line, 1, {"\\"}), 0)
     \o (IF CharAt(line, 1, "-") \/ CharAt(line, 1, BULLET) THEN <<1>> ELSE <<>>)

\* The rest of req_pattern after group 1 ending at e: a backslash, then
\* s* (the letter s), then (.+)$; s* gives one s back when nothing else
\* is left for group 2
AfterGroup(line, e) ==
    IF ~CharAt(line, e + 1, "\\") THEN [ok |-> FALSE, text |-> <<>>]
    ELSE LET ns == Run(line, e + 2, {"s"})
         IN  IF Len(line) - (e + 1) - ns >= 1
             THEN [ok |-> TRUE, text |-> SubSeq(line, e + 2 + ns, Len(line))]
             ELSE IF ns >= 1
             THEN [ok |-> TRUE, text |-> SubSeq(line, Len(line), Len(line))]
             ELSE [ok |-> FALSE, text |-> <<>>]

\* req_pattern.match(line): [ok, id_candidate (group 1), text (group 2)]
Matched(line, ends) ==
    LET hits == {i \in 1..Len(ends) : AfterGroup(line, ends[i]).ok}
    IN  IF hits = {} THEN [ok |-> FALSE, id |-> <<>>, text |-> <<>>]
        ELSE LET e == ends[CHOOSE i \in hits : \A j \in hits : i <= j]
             IN  [ok |-> TRUE, id |-> SubSeq(line, 1, e),
                  text |-> AfterGroup(line, e).text]

req_pattern_match(line) == Matched(line, GroupEnds(line))

\* str(n) for n >= 0
RECURSIVE Decimal(_)
Decimal(n) ==
    LET digit == <<"0", "1", "2", "3", "4", "5", "6", "7", "8", "9">>
    IN  IF n < 10 THEN <<digit[n + 1]>>
        ELSE Append(Decimal(n \div 10), digit[(n % 10) + 1])

\* f"R-{n}"
GeneratedId(n) == <<"R", "-">> \o Decimal(n)

StartsWithR(str) == CharAt(str, 1, "R") /\ CharAt(str, 2, "-")

\* lines 35-38: the stripped text of every paragraph that is not blank
RECURSIVE temp_lines(_)
temp_lines(paras) ==
    IF Len(paras) = 0 THEN <<>>
    ELSE (IF Len(Strip(Head(paras))) > 0 THEN <<Strip(Head(paras))>> ELSE <<>>)
         \o temp_lines(Tail(paras))

\* lines 43-50, m being what the match of the line gave
Extracted(reqs, m) ==
    IF ~m.ok THEN reqs
    ELSE Append(reqs, [id |-> IF StartsWithR(m.id) THEN m.id
                              ELSE GeneratedId(Len(reqs) + 1),
                       text |-> Strip(m.text)])

\* lines 42-50
RECURSIVE MatchLoop(_, _)
MatchLoop(lines, reqs) ==
    IF Len(lines) = 0 THEN reqs
    ELSE MatchLoop(Tail(lines), Extracted(reqs, req_pattern_match(Head(lines))))

\* lines 54-55
AllLinesSequential(lines) ==
    [i \in 1..Len(lines) |-> [id |-> GeneratedId(i), text |-> lines[i]]]

\* lines 52-55
WithFallback(reqs, lines) ==
    IF Len(reqs) = 0 THEN AllLinesSequential(lines) ELSE reqs

WithLines(lines) == WithFallback(MatchLoop(lines, <<>>), lines)

\* lines 33-58, the document being opened
parse_requirements(paras) == WithLines(temp_lines(paras))

\* line 57, the count left out of the record
ParsedRecord == "INFO Parsed requirements from document"

----------------------------------------------------------------------------
(* ReqSpec: parse_requirements applied to every document of at most        *)
(* MaxParas paragraphs                                                     *)

LinePrefixes ==
    {<<"R", "-", "1">>, <<"R", "-", "1", "2">>, <<"1", ".">>, <<"2">>,
     <<"a", "1", ".">>, <<"-">>, <<"*">>, <<BULLET>>, <<>>}
LineSeparators == {<<" ">>, <<"\\">>}
LineBodies == {<<"a">>, <<"s", "a">>}

ParaTexts ==
    {p \o x \o b : p \in LinePrefixes, x \in LineSeparators, b \in LineBodies}
    \cup {<<>>, <<" ">>, <<" ", "R", "-", "1", " ", "a", " ">>,
          <<"\\", "\\", "a">>, <<"R", "-", "1", "\\">>, <<"R", "-", "1", "\\", "s">>}

Documents == UNION {[1..n -> ParaTexts] : n \in 0..MaxParas}

\* every variable of the provider layer at rest
ProviderLayerIdle ==
    /\ call = NoCall
    /\ provider = NoProvider
    /\ clients = 0
    /\ requests = 0
    /\ calls = 0
    /\ raised = FALSE
    /\ log = <<>>
    /\ world = Calm
    /\ environ = [OPENAI_API_KEY |-> Unset, ANTHROPIC_API_KEY |-> Unset]
    /\ raw = NoRaw
    /\ result = NoResult
    /\ source = NoSource

InitReq ==
    /\ ProviderLayerIdle
    /\ document \in Documents
    /\ requirements = <<>>
    /\ walk = <<>>
    /\ source_files = <<>>
    /\ total_chars = 0
    /\ stage = "idle"

\* main.py:62, requirements = parse_requirements(uploaded_docx)
ParseRequirements ==
    /\ stage = "idle"
    /\ requirements' = parse_requirements(document)
    /\ log' = Append(log, ParsedRecord)
    /\ stage' = "parsed"
    /\ UNCHANGED <<environ, call, provider, clients, requests, calls, raw,
                   result, raised, world, source, document, walk,
                   source_files, total_chars>>

NextReq == ParseRequirements

ReqSpec == InitReq /\ [][NextReq]_vars

----------------------------------------------------------------------------
(* read_source_code, file_parser.py:61-95.  A file of the tree has a name, *)
(* a size in bytes, the number of characters its content decodes to, and   *)
(* may fail to be read.  The content is known by its length.               *)

SUPPORTED_EXTENSIONS ==
    {<<".", "p", "y">>, <<".", "j", "s">>, <<".", "t", "s">>,
     <<".", "j", "a", "v", "a">>, <<".", "c", "s">>, <<".", "c", "p", "p">>,
     <<".", "c">>, <<".", "h">>, <<".", "h", "p", "p">>, <<".", "g", "o">>,
     <<".", "r", "b">>, <<".", "p", "h", "p">>,
     <<".", "s", "w", "i", "f", "t">>, <<".", "k", "t">>, <<".", "r", "s">>,
     <<".", "m">>, <<".", "m", "m">>, <<".", "s", "c", "a", "l", "a">>}
MAX_FILE_SIZE_BYTES == 800 * 1024
MAX_TOTAL_CODE_CHARS == 200000

\* os.path.splitext(file)[1]: from the last dot on, unless only dots
\* come before it
splitext_ext(name) ==
    LET dots == {i \in 1..Len(name) : name[i] = "."}
    IN  IF dots = {} THEN <<>>
        ELSE LET d == CHOOSE i \in dots : \A j \in dots : j <= i
             IN  IF \E j \in 1..(d - 1) : name[j] # "."
                 THEN SubSeq(name, d, Len(name)) ELSE <<>>

\* lines 70-71
Supported(name) == Lower(splitext_ext(name)) \in SUPPORTED_EXTENSIONS

\* the directories os.walk yields, in order, each with its files: the
\* tree is listed as file entries, a "dir" entry opening the next directory
DirOf(tree, i) == 1 + Cardinality({j \in 1..i : tree[j].kind = "dir"})

Listed(tree) ==
    [i \in 1..Len(tree) |->
        IF tree[i].kind = "dir" THEN tree[i]
        ELSE [kind |-> "file", path |-> <<DirOf(tree, i), i>>,
              name |-> tree[i].name, size |-> tree[i].size,
              chars |-> tree[i].chars, readable |-> tree[i].readable]]

FilesOf(listed, k, tree) ==
    LET InDir(f) == f.kind = "file" /\ f.path[1] = k
    IN  SelectSeq(listed, InDir)

os_walk(tree) ==
    [k \in 1..DirOf(tree, Len(tree)) |-> FilesOf(Listed(tree), k, tree)]

\* the locals of read_source_code: broke says that the loop over the
\* files of a directory was left by break
Locals(files, total, broke, records) ==
    [source_files |-> files, total_chars |-> total, broke |-> broke,
     log |-> records]

\* mutant: the file is appended before the total is compared with the limit
ReadFile_appendfirst(st, f) ==
    IF ~Supported(f.name) THEN st
    ELSE IF ~f.readable
    THEN Locals(st.source_files, st.total_chars, FALSE,
                Append(st.log, "ERROR Failed reading file"))
    ELSE IF f.size > MAX_FILE_SIZE_BYTES
    THEN Locals(st.source_files, st.total_chars, FALSE,
                Append(st.log, "INFO Skipping large file"))
    ELSE IF st.total_chars + f.chars > MAX_TOTAL_CODE_CHARS
    THEN Locals(Append(st.source_files, [path |-> f.path, content |-> f.chars]),
                st.total_chars + f.chars, TRUE,
                Append(st.log, "INFO Reached max total code chars limit."))
    ELSE Locals(Append(st.source_files, [path |-> f.path, content |-> f.chars]),
                st.total_chars + f.chars, FALSE, st.log)

\* lines 70-86: the body of the loop over the files of a directory
ReadFile(st, f) ==
    IF ~Supported(f.name) THEN st
    ELSE IF ~f.readable
    THEN Locals(st.source_files, st.total_chars, FALSE,
                Append(st.log, "ERROR Failed reading file"))
    ELSE IF f.size > MAX_FILE_SIZE_BYTES
    THEN Locals(st.source_files, st.total_chars, FALSE,
                Append(st.log, "INFO Skipping large file"))
    ELSE IF st.total_chars + f.chars > MAX_TOTAL_CODE_CHARS
    THEN Locals(st.source_files, st.total_chars + f.chars, TRUE,
                Append(st.log, "INFO Reached max total code chars limit."))
    ELSE Locals(Append(st.source_files, [path |-> f.path, content |-> f.chars]),
                st.total_chars + f.chars, FALSE, st.log)

RECURSIVE FilesLoop(_, _)
\* line 83: break leaves the loop over the files
AfterFile(rest, st) == IF st.broke THEN st ELSE FilesLoop(rest, st)

\* lines 69-86
FilesLoop(files, st) ==
    IF Len(files) = 0 THEN st
    ELSE AfterFile(Tail(files), ReadFile(st, Head(files)))

RECURSIVE WalkLoop(_, _)
\* lines 87-92: the else of the for continues the walk, otherwise the
\* walk is left when the limit is exceeded
AfterDir(rest, st) ==
    IF ~st.broke THEN WalkLoop(rest, st)
    ELSE IF st.total_chars > MAX_TOTAL_CODE_CHARS THEN st
    ELSE WalkLoop(rest, st)

\* lines 68-92
WalkLoop(dirs, st) ==
    IF Len(dirs) = 0 THEN st
    ELSE AfterDir(Tail(dirs), FilesLoop(Head(dirs), st))

\* line 94, the count left out of the record
Collected(st) ==
    Locals(st.source_files, st.total_chars, st.broke,
           Append(st.log, "INFO Collected source files"))

\* lines 61-95
read_source_code(tree) ==
    Collected(WalkLoop(os_walk(tree), Locals(<<>>, 0, FALSE, <<>>)))

----------------------------------------------------------------------------
(* ReadSpec: read_source_code applied to every tree of at most MaxEntries  *)
(* entries                                                                 *)

File(name, size, chars, readable) ==
    [kind |-> "file", name |-> name, size |-> size, chars |-> chars,
     readable |-> readable]

a_py == <<"a", ".", "p", "y">>

TreeEntries ==
    {[kind |-> "dir"],
     File(a_py, 1, 1, TRUE),
     File(a_py, 100000, 100000, TRUE),
     File(a_py, MAX_TOTAL_CODE_CHARS, MAX_TOTAL_CODE_CHARS, TRUE),
     File(a_py, MAX_TOTAL_CODE_CHARS + 1, MAX_TOTAL_CODE_CHARS + 1, TRUE),
     File(a_py, MAX_FILE_SIZE_BYTES + 1, MAX_FILE_SIZE_BYTES + 1, TRUE),
     File(a_py, 1, 1, FALSE),
     File(<<"a", ".", "P", "Y">>, 1, 1, TRUE),
     File(<<"a", ".", "t", "x", "t">>, 1, 1, TRUE),
     File(<<".", "p", "y">>, 1, 1, TRUE)}

Trees == UNION {[1..n -> TreeEntries] : n \in 0..MaxEntries}

InitRead ==
    /\ ProviderLayerIdle
    /\ document = <<>>
    /\ requirements = <<>>
    /\ walk \in Trees
    /\ source_files = <<>>
    /\ total_chars = 0
    /\ stage = "idle"

\* main.py:64, source_files = read_source_code(directory)
ReadSourceCode ==
    /\ stage = "idle"
    /\ \E st \in {read_source_code(walk)} :
           /\ source_files' = st.source_files
           /\ total_chars' = st.total_chars
           /\ log' = log \o st.log
    /\ stage' = "read"
    /\ UNCHANGED <<environ, call, provider, clients, requests, calls, raw,
                   result, raised, world, source, document, requirements,
                   walk>>

NextRead == ReadSourceCode

ReadSpec == InitRead /\ [][NextRead]_vars

----------------------------------------------------------------------------
(* ParseSpec: _parse_llm_json applied to every input text, and to the      *)
(* serialisation of its own output                                         *)

InitParse ==
    /\ Quiet
    /\ environ = [OPENAI_API_KEY |-> Unset, ANTHROPIC_API_KEY |-> Unset]
    /\ \E in \in Inputs :
        /\ source = in.source
        /\ raw = Fed(in.text)
    /\ result = NoResult
    /\ stage = "input"

Normalize ==
    /\ stage = "input"
    /\ \E r \in {_parse_llm_json(raw.text)} :
           /\ raised' = (r = Raise)
           /\ result' = IF r = Raise THEN NoResult ELSE r
    /\ stage' = "normalized"
    /\ UNCHANGED <<environ, call, provider, clients, requests, calls, raw,
                   log, world, source,
                   document, requirements, walk, source_files, total_chars>>

Reserialize ==
    /\ stage = "normalized"
    /\ ~raised
    /\ source' = result
    /\ raw' = Fed(dumps(result))
    /\ result' = NoResult
    /\ stage' = "input"
    /\ UNCHANGED <<environ, call, provider, clients, requests, calls,
                   raised, log, world,
                   document, requirements, walk, source_files, total_chars>>

NextParse == Normalize \/ Reserialize

ParseSpec == InitParse /\ [][NextParse]_vars

----------------------------------------------------------------------------
(* Claims about the normaliser, checked under ParseSpec                    *)

HasAllFive(d) == d.t = "dict" /\ Required \subseteq Keys(d)

\* the input text is known not to be JSON without consulting the parser
KnownBroken == source = NoSource /\ raw.text \in BrokenTexts \cup {<<>>}

\* the mapping the input text denotes, when it denotes one
DenotesMapping ==
    IF source # NoSource THEN source.t = "dict"
    ELSE json_loads(raw.text).ok /\ json_loads(raw.text).val.t = "dict"

Denoted == IF source # NoSource THEN source ELSE json_loads(raw.text).val

\* C5: _parse_llm_json never raises, whatever the input text, and its
\* result always holds the five keys summary, traceability_matrix,
\* missing_requirements, suggestions and detailed_analysis.
C5_NeverRaisesFiveKeys ==
    stage = "normalized" => ~raised /\ HasAllFive(result)

\* C5 witness: a text that is not JSON (json.loads raises) was normalised
C5_Witness ==
    /\ stage = "normalized"
    /\ KnownBroken
    /\ Len(raw.text) > 0
    /\ HasAllFive(result)

\* C6: normalising the JSON text of a mapping that has all five required
\* fields returns that mapping, nothing added, removed or changed; so the
\* serialisation of any output of the normaliser normalises to that output.
C6_Idempotent ==
    (stage = "normalized" /\ source # NoSource /\ HasAllFive(source))
        => ~raised /\ result = source

\* C6 witness: a six-field mapping with non-default values came back as is
C6_Witness ==
    /\ stage = "normalized"
    /\ source # NoSource
    /\ HasAllFive(source)
    /\ HasKey(source, T("extra"))
    /\ Get(source, T("suggestions")) = None
    /\ result = source

\* C7: when the text parses to a mapping, the result is that mapping with
\* each absent required field at its default and every present key, required
\* or not, at exactly its parsed value, whatever the type of that value.
C7_FillAbsentKeepPresent ==
    (stage = "normalized" /\ DenotesMapping) =>
        /\ result.t = "dict"
        /\ Keys(result) = Keys(Denoted) \cup Required
        /\ \A key \in Keys(Denoted) : Get(result, key) = Get(Denoted, key)
        /\ HasKey(Denoted, T("summary"))
            \/ Get(result, T("summary")) = Str(<<>>)
        /\ HasKey(Denoted, T("traceability_matrix"))
            \/ Get(result, T("traceability_matrix")) = Dict(<<>>)
        /\ HasKey(Denoted, T("missing_requirements"))
            \/ Get(result, T("missing_requirements")) = List(<<>>)
        /\ HasKey(Denoted, T("suggestions"))
            \/ Get(result, T("suggestions")) = List(<<>>)
        /\ HasKey(Denoted, T("detailed_analysis"))
            \/ Get(result, T("detailed_analysis")) = Str(<<>>)

\* C7 witness: the text {"summary": "ok"} gave summary "ok" and defaults
C7_Witness ==
    /\ stage = "normalized"
    /\ raw.text = <<P("{"), Q(T("summary")), P(":"), WS, Q(T("ok")), P("}")>>
    /\ result = Dict(<<[key |-> T("summary"), val |-> Str(T("ok"))],
                       [key |-> T("traceability_matrix"), val |-> Dict(<<>>)],
                       [key |-> T("missing_requirements"), val |-> List(<<>>)],
                       [key |-> T("suggestions"), val |-> List(<<>>)],
                       [key |-> T("detailed_analysis"), val |-> Str(<<>>)]>>)

\* C8: when the text is not valid JSON, or is JSON whose top-level value is
\* not a mapping, the result is the canned one: the fixed summary, an empty
\* traceability_matrix, empty missing_requirements, the single fixed
\* suggestion, and detailed_analysis equal to the raw text verbatim.
C8_DegradedResult ==
    (stage = "normalized" /\ (~DenotesMapping \/ KnownBroken)) =>
        /\ result.t = "dict"
        /\ Keys(result) = Required
        /\ Get(result, T("summary")) = Str(T("Model returned non-JSON output."))
        /\ Get(result, T("traceability_matrix")) = Dict(<<>>)
        /\ Get(result, T("missing_requirements")) = List(<<>>)
        /\ Get(result, T("suggestions"))
            = List(<<Str(T("Ensure the model is instructed to output strict JSON."))>>)
        /\ Get(result, T("detailed_analysis")) = Str(raw.text)

\* C8 witness: the text "not json at all" came back in detailed_analysis
C8_Witness ==
    /\ stage = "normalized"
    /\ raw.text = <<W("not json at all")>>
    /\ Get(result, T("detailed_analysis")) = Str(<<W("not json at all")>>)
    /\ Len(Get(result, T("suggestions")).items) = 1

----------------------------------------------------------------------------
(* Claims about analyze_with_llm, checked under Spec                       *)

KnownNames == {gpt_4o, claude_35_sonnet, local_llama_3}

\* the model name of the invocation, trimmed and lower-cased
Canonical == Lower(Strip(call.model_name))

\* C1: for every prompt, model name and credential, and whatever the
\* library and the backend do, analyze_with_llm returns and propagates no
\* exception, and the mapping returned holds the five keys.
C1_NeverRaises ==
    stage = "returned" => ~raised /\ HasAllFive(result)

\* C1 witness: the client constructor raised and a result came back
C1_Witness ==
    /\ stage = "returned"
    /\ world.ctor = "raises"
    /\ ~raised
    /\ HasAllFive(result)

\* C2: a model name that, trimmed and lower-cased, is none of the three
\* known names (the empty name included) gets exactly the Mock result,
\* whatever the credential; no client is constructed, no request issued.
C2_UnknownIsMock ==
    (stage = "returned" /\ Canonical \notin KnownNames) =>
        /\ ~raised
        /\ result = MockResult
        /\ clients = 0
        /\ requests = 0

\* C2 witness: the empty model name with a credential got the Mock result
C2_Witness ==
    /\ stage = "returned"
    /\ call.model_name = <<>>
    /\ call.api_key = "sk-arg"
    /\ environ["OPENAI_API_KEY"] = "sk-env"
    /\ result = MockResult

\* C3: a hosted model name with an empty credential and the matching
\* environment variable unset or empty gets the Mock result, without a
\* client being constructed and without a request being issued.
C3_NoCredentialIsMock ==
    (/\ stage = "returned"
     /\ call.api_key = ""
     /\ \/ Canonical = gpt_4o /\ environ["OPENAI_API_KEY"] \in {Unset, ""}
        \/ Canonical = claude_35_sonnet
            /\ environ["ANTHROPIC_API_KEY"] \in {Unset, ""}) =>
        /\ ~raised
        /\ result = MockResult
        /\ clients = 0
        /\ requests = 0

\* C3 witness: "Claude 3.5 Sonnet" with no credential, its variable unset
\* while the other provider's variable is set
C3_Witness ==
    /\ stage = "returned"
    /\ call.model_name \in MODEL_OPTIONS
    /\ Canonical = claude_35_sonnet
    /\ call.api_key = ""
    /\ environ["ANTHROPIC_API_KEY"] = Unset
    /\ environ["OPENAI_API_KEY"] = "sk-env"
    /\ result = MockResult
    /\ clients = 0

\* C4: an invocation issues at most one backend request, and when that
\* request fails at call time the invocation returns the Mock result and
\* the failure is not propagated.
C4_OneRequestNoRetry ==
    /\ requests <= 1
    /\ (stage = "returned" /\ world.backend \in Failures) =>
        /\ ~raised
        /\ requests = 1
        /\ result = MockResult

\* C4 witness: the request to the local daemon timed out
C4_Witness ==
    /\ stage = "returned"
    /\ provider.class = "OllamaProvider"
    /\ world.backend = "timeout"
    /\ requests = 1
    /\ result = MockResult

\* C9: two model names that are equal after strip and lower-casing select
\* the same provider, the credential and the environment being the same.
\* Stated for the name of the invocation against its trimmed lower-case
\* form, that form's other casings and the names the user interface offers.
C9_SelectionIgnoresCaseAndPadding ==
    stage = "returned" =>
        \A other \in {Canonical} \cup Cased(Canonical) \cup MODEL_OPTIONS :
            Lower(Strip(other)) = Canonical
                => SelectProvider(other, call.api_key, environ) = provider.class

\* C9 witness: " GPT-4O " with a credential selected the OpenAI provider
C9_Witness ==
    /\ stage = "returned"
    /\ call.model_name = <<" ", "G", "P", "T", "-", "4", "O", " ">>
    /\ call.api_key = "sk-arg"
    /\ provider.class = "OpenAIProvider"

----------------------------------------------------------------------------
(* Claim about the provider objects, checked under ProviderSpec            *)

ConstructionFailed ==
    call.made /\ world.ctor \in {"ImportError", "raises"}

\* C10: when constructing a hosted-API client fails, the constructor does
\* not raise, the object's client is None, and every later analyze call on
\* the object returns the Mock result without raising or issuing a request.
C10_UnusableAdapterIsMock ==
    ConstructionFailed =>
        /\ ~raised
        /\ stage = "ready"
        /\ provider.class \in Hosted
        /\ provider.client = "None"
        /\ requests = 0
        /\ calls > 0 => result = MockResult

\* C10 witness: the anthropic library is missing; analyze was called twice
C10_Witness ==
    /\ ConstructionFailed
    /\ provider.class = "AnthropicProvider"
    /\ world.ctor = "ImportError"
    /\ calls >= 2
    /\ result = MockResult

----------------------------------------------------------------------------
(* parse_requirements                                                      *)

\* the digits of an R-<digits> prefix of the line, 0 when it has none
IdDigits(line) == IF StartsWithR(line) THEN Run(line, 3, Digits) ELSE 0

\* the length of a number or bullet prefix of the line, 0 when it has none
ListPrefixLen(line) ==
    LET d == Run(line, 1, Digits)
    IN  IF d >= 1 THEN (IF CharAt(line, d + 1, ".") THEN d + 1 ELSE d)
        ELSE IF CharAt(line, 1, "-") \/ CharAt(line, 1, "*")
                \/ CharAt(line, 1, BULLET) THEN 1
        ELSE 0

\* what follows the first n characters of the line, stripped
Remainder(line, n) == Strip(SubSeq(line, n + 1, Len(line)))

\* the line starts with an id R-<digits> followed by text
HasIdPrefix(line) ==
    IdDigits(line) >= 1 /\ Len(Remainder(line, 2 + IdDigits(line))) >= 1

\* the line starts with a number or a bullet followed by text
HasListPrefix(line) ==
    ListPrefixLen(line) >= 1 /\ Len(Remainder(line, ListPrefixLen(line))) >= 1

\* the entries the lines of the document must produce
IdsExtractedFrom(lines) ==
    /\ \A i \in 1..Len(lines) :
         HasIdPrefix(lines[i]) =>
             \E j \in 1..Len(requirements) :
                 requirements[j] =
                     [id |-> SubSeq(lines[i], 1, 2 + IdDigits(lines[i])),
                      text |-> Remainder(lines[i], 2 + IdDigits(lines[i]))]
    /\ \A i \in 1..Len(lines) :
         HasListPrefix(lines[i]) =>
             \E j \in 1..Len(requirements) :
                 requirements[j] =
                     [id |-> GeneratedId(j),
                      text |-> Remainder(lines[i], ListPrefixLen(lines[i]))]
    /\ (\E i \in 1..Len(lines) : HasIdPrefix(lines[i]) \/ HasListPrefix(lines[i]))
         => requirements # AllLinesSequential(lines)

\* C11: parse_requirements extracts the requirement ids of the document:
\* every non-empty line that starts with R-<digits> followed by text gives
\* an entry with that id and the remainder of the line as its text, every
\* line that starts with a number or a bullet followed by text gives an
\* entry with the generated id R-<k>, k being its place among the entries,
\* and the all-lines sequential fallback is used only when no line has such
\* a prefix.
C11_IdsExtracted ==
    stage = "parsed" => IdsExtractedFrom(temp_lines(document))

----------------------------------------------------------------------------
(* read_source_code                                                        *)

\* a file that may be returned: supported extension, within the size
\* limit, readable
Countable(f) ==
    /\ f.kind = "file"
    /\ Supported(f.name)
    /\ f.size <= MAX_FILE_SIZE_BYTES
    /\ f.readable

\* the files of the tree that may be returned, in the order of the walk
Eligible(tree) ==
    LET listed == SelectSeq(Listed(tree), Countable)
    IN  [i \in 1..Len(listed) |->
            [path |-> listed[i].path, content |-> listed[i].chars]]

RECURSIVE ContentChars(_)
ContentChars(files) ==
    IF Len(files) = 0 THEN 0
    ELSE Head(files).content + ContentChars(Tail(files))

\* files is what the budget lets through of the eligible files: they are
\* the first of them, whole, and the next one would exceed the limit
WithinBudget(files, eligible) ==
    /\ ContentChars(files) <= MAX_TOTAL_CODE_CHARS
    /\ Len(files) <= Len(eligible)
    /\ files = SubSeq(eligible, 1, Len(files))
    /\ Len(files) < Len(eligible) =>
           ContentChars(files) + eligible[Len(files) + 1].content
               > MAX_TOTAL_CODE_CHARS

\* C12: read_source_code keeps the collected code within the prompt budget:
\* the content lengths of the returned files never sum to more than
\* MAX_TOTAL_CODE_CHARS; the first file that would push the running total
\* above the limit is dropped whole and no file is added after it, from the
\* same directory or a later one; files with an unsupported extension or
\* larger than MAX_FILE_SIZE_BYTES are never returned and do not count.
C12_WithinBudget ==
    stage = "read" => WithinBudget(source_files, Eligible(walk))

\* a file was returned, a later one exceeded the limit, and a file that
\* fits on its own, in a directory opened after the last returned file,
\* was left out
C12_Witness ==
    /\ stage = "read"
    /\ Len(source_files) >= 1
    /\ total_chars > MAX_TOTAL_CODE_CHARS
    /\ \E i, j \in 1..Len(walk) :
           /\ source_files[Len(source_files)].path[2] < i
           /\ i < j
           /\ walk[i].kind = "dir"
           /\ Countable(walk[j])
           /\ walk[j].chars = 1

====
